---- MODULE Spec2Model ----
(***************************************************************************)
(* Position control loop of the DRIFT/KMNO spread bot (class SpreadBot in  *)
(* src/src/bot.ts, driven by src/src/main.ts).                             *)
(*                                                                         *)
(* Quantities are counted in tenths of a unit, so that the reconciliation  *)
(* tolerance of 0.1 is exactly one tenth.  Every action is the code that   *)
(* runs between two suspension points (await) of the single JavaScript     *)
(* thread; the bot's cycle and the stop() path are two tasks that          *)
(* interleave only at those points.                                        *)
(***************************************************************************)
EXTENDS Integers, Sequences, FiniteSets, TLC

VARIABLES
    state,            \* SpreadBot.state
    currentPosition,  \* SpreadBot.currentPosition (present = FALSE is null)
    cycleCount,       \* SpreadBot.cycleCount
    isCycleRunning,   \* SpreadBot.isCycleRunning
    cycleInterval,    \* SpreadBot.cycleInterval is armed
    isShuttingDown,   \* main.ts isShuttingDown
    stopCalls,        \* number of bot.stop() invocations made by shutdown()
    pendingSignals,   \* stop signals and fatal errors still to be delivered
    probe,            \* one checkLiquidity call examined on its own
    mainPc,           \* position of main(): "initDrift", "running", "exited"
    task,             \* position of the in-flight cycle and of stop()
    venue,            \* the venue's perp positions of the sub-account
    orders,           \* executeOrder calls completed since the last cycle ended
    inflight,         \* number of executeCycle invocations past the guard
    invocations,      \* number of executeCycle invocations
    skipped,          \* number of invocations that returned at the guard
    rec,              \* the run of reconcilePosition of the cycle in flight
    sinceRec,         \* last operation on the position was a completed reconcile
    call,             \* the latest executeOrder call of each task
    cyc               \* what the cycle in flight started from and went through

vars == <<state, currentPosition, cycleCount, isCycleRunning, cycleInterval,
          isShuttingDown, stopCalls, pendingSignals, probe, mainPc, task, venue, orders,
          inflight, invocations, skipped, rec, sinceRec, call, cyc>>

-----------------------------------------------------------------------------
(* Program constants *)

DRIFT_QUANTITY == 10
KMNO_QUANTITY == 100
MAX_RETRIES == 3
MAX_SLIPPAGE_BPS == 25
CLOSE_MAX_SLIPPAGE_BPS == 50
RETRY_DELAY_MS == 1000
TenthsPerUnit == 10
Tolerance == 1

(* Bounds of the model *)

MaxCycles == 2
MaxSkips == 1
MaxSignals == 2

-----------------------------------------------------------------------------
(* Values *)

Signals == {-1, 0, 1}

Abs(x) == IF x < 0 THEN -x ELSE x

QA == DRIFT_QUANTITY * TenthsPerUnit
QB == KMNO_QUANTITY * TenthsPerUnit

Null == [present |-> FALSE, drift |-> 0, kmno |-> 0, signal |-> 0]

Pos(d, k, s) == [present |-> TRUE, drift |-> d, kmno |-> k, signal |-> s]

V(d, k) == [drift |-> d, kmno |-> k]

\* Venue positions the account can hold when the process starts: flat, an
\* exact spread, a spread off by at most the tolerance, an oversized or
\* undersized spread, dust, a single open leg, two legs of the same sign.
VenueInits ==
    { V(0, 0), V(QA, -QB), V(-QA, QB),
      V(QA + 1, -QB), V(QA - 1, -(QB - 1)), V(-(QA + 1), QB),
      V(QA + 2, -QB), V(2 * QA, -QB), V(2 * QA, -(QB + 1)), V(QA \div 2, -QB),
      V(-QA, 2 * QB),
      V(-1, 1),
      V(QA, 0), V(0, QB), V(-QA, -QB) }

\* Order books returned by the DLOB endpoint; ok = FALSE is a failed fetch.
Level(p, s) == [price |-> p, size |-> s]
BookInputs ==
    { [ok |-> FALSE, levels |-> <<>>],
      [ok |-> TRUE,  levels |-> <<>>],
      [ok |-> TRUE,  levels |-> <<Level(1000, 5000)>>],
      [ok |-> TRUE,  levels |-> <<Level(1000, 80)>>],
      [ok |-> TRUE,  levels |-> <<Level(1000, 50), Level(1010, 5000)>>] }

IdleTask == [pc |-> "idle", op |-> "none", ctx |-> "none", leg |-> "DRIFT",
             attempt |-> 0, newSignal |-> 0, snap |-> Null, tgt |-> 0,
             liqOk |-> TRUE]

Flat == [drift |-> 0, kmno |-> 0]

\* Record of one run of reconcilePosition: the internal position before it,
\* the venue position it read (seen), the corrective orders it submitted
\* (n, counting one per executeOrder call), whether
\* it directly follows a completed run (second), and the venue quantity of a
\* leg just before (pre) and after (post) its accepted corrective order.
NoRec == [ran |-> FALSE, before |-> Null, seen |-> Null, queryOk |-> TRUE,
          n |-> 0, second |-> FALSE, status |-> "none", acc |-> {},
          pre |-> Flat, post |-> Flat]

\* Record of one executeOrder call: its orderType (name), the outcome of each
\* placePerpOrder submission in order, the delays it has waited, how it
\* ended ("tx" returned, "threw") and the attempt count named by its error.
NoCall == [name |-> <<"none", "none">>, outcomes |-> <<>>, delays |-> <<>>,
           result |-> "none", errName |-> <<"none", "none">>, errAttempts |-> 0]

\* Record of one checkLiquidity call: the book the endpoint returned, the
\* order size asked, the value returned (result) and the size the walk had
\* accumulated (counted).
NoProbe == [book |-> [ok |-> FALSE, levels |-> <<>>], size |-> 0,
            result |-> [canFill |-> FALSE, num |-> 1, den |-> 0],
            counted |-> 0, done |-> FALSE]

\* Record of one cycle: state and internal position it started with, whether
\* getSpreadSignal failed, whether a venue position query of the cycle
\* threw, the verdicts of the liquidity validation of the two legs in
\* openPosition, the branch of executeCycle it took (kind), the signal it
\* obtained (to), and the signal toward which the open of the previous cycle
\* was rejected (rejected, 0 when it was not).
NoCyc == [st0 |-> "none", pos0 |-> Null, signalFailed |-> FALSE,
          queryFailed |-> FALSE, liq |-> "none", okA |-> FALSE, okB |-> FALSE,
          kind |-> "none", to |-> 0, rejected |-> 0]

-----------------------------------------------------------------------------
(* Pure helpers of SpreadBot *)

\* Signal derived from the signs of the two venue quantities.
SignalOf(d, k) ==
    IF d > 0 /\ k < 0 THEN 1
    ELSE IF d < 0 /\ k > 0 THEN -1
    ELSE 0

\* getCurrentSpreadPosition: null when both legs are zero or the query throws.
GetCurrentSpreadPosition(v, queryOk) ==
    IF ~queryOk THEN Null
    ELSE IF v.drift = 0 /\ v.kmno = 0 THEN Null
    ELSE Pos(v.drift, v.kmno, SignalOf(v.drift, v.kmno))

\* Outcomes of the venue position query in a step: it succeeds or throws
\* when the step performs it (used), and plays no part otherwise.
QueryOutcomes(used) == IF used THEN BOOLEAN ELSE {TRUE}

\* this.currentPosition?.signal || 0
CurrentSignal(pos) == IF pos.present THEN pos.signal ELSE 0

RECURSIVE Walk(_, _, _, _, _)
Walk(levels, i, orderSize, totalSize, totalValue) ==
    IF i > Len(levels) \/ orderSize - totalSize <= 0
    THEN [size |-> totalSize, value |-> totalValue]
    ELSE LET remaining == orderSize - totalSize
             fillSize  == IF levels[i].size < remaining
                          THEN levels[i].size ELSE remaining
             ts == totalSize + fillSize
             tv == totalValue + fillSize * levels[i].price
         IN IF ts >= orderSize
            THEN [size |-> ts, value |-> tv]
            ELSE Walk(levels, i + 1, orderSize, ts, tv)

\* checkLiquidity: the slippage |avg - best| / best is kept as the fraction
\* num / den; den = 0 is the NaN of a zero-size walk.
CheckLiquidity_partial(book, orderSize) ==
    IF ~book.ok \/ Len(book.levels) = 0
    THEN [canFill |-> FALSE, num |-> 1, den |-> 0]
    ELSE LET w    == Walk(book.levels, 1, orderSize, 0, 0)
             best == book.levels[1].price
         IN [canFill |-> w.size > 0,
             num |-> Abs(w.value - best * w.size),
             den |-> best * w.size]
CheckLiquidity(book, orderSize) ==
    IF ~book.ok \/ Len(book.levels) = 0
    THEN [canFill |-> FALSE, num |-> 1, den |-> 0]
    ELSE LET w    == Walk(book.levels, 1, orderSize, 0, 0)
             best == book.levels[1].price
         IN IF w.size < orderSize
            THEN [canFill |-> FALSE, num |-> 1, den |-> 0]
            ELSE [canFill |-> TRUE,
                  num |-> Abs(w.value - best * w.size),
                  den |-> best * w.size]

\* validateLiquidity: estimatedSlippage > maxSlippage rejects; Infinity
\* (num 1, den 0) only occurs with canFill = FALSE, NaN (0/0) never exceeds.
ValidateLiquidity(chk, isClosing) ==
    LET maxBps == IF isClosing THEN CLOSE_MAX_SLIPPAGE_BPS ELSE MAX_SLIPPAGE_BPS
    IN chk.canFill /\ ~(chk.num * 10000 > maxBps * chk.den)

\* openPosition: per-leg direction from the sign of the signal.
OpenDriftDirection(signal) == IF signal > 0 THEN "LONG" ELSE "SHORT"
OpenKmnoDirection(signal)  == IF signal > 0 THEN "SHORT" ELSE "LONG"

\* openPosition: the open returns without an order when the liquidity
\* validation of a leg failed.
OpenRejected_both(okA, okB) == ~okA /\ ~okB
OpenRejected(okA, okB) == ~okA \/ ~okB

\* openPosition: the position recorded after both legs were confirmed.
OpenedPosition_samesign(signal) ==
    Pos(signal * QA, signal * QB, signal)
OpenedPosition(signal) ==
    Pos(signal * QA, -signal * QB, signal)

\* closePosition: reducing direction of a held quantity.
CloseDirection_same(q) == IF q > 0 THEN "LONG" ELSE "SHORT"
CloseDirection(q) == IF q > 0 THEN "SHORT" ELSE "LONG"

\* closePosition: the position to close is the one the venue reports, not
\* the internal record.
CloseReads_internal(v, pos, queryOk) == pos
CloseReads(v, pos, queryOk) == GetCurrentSpreadPosition(v, queryOk)

\* reconcilePosition: target quantities of a signal.
TargetDrift(signal) == signal * QA
TargetKmno_samesign(signal) == signal * QB
TargetKmno(signal)  == -signal * QB

AbsDiff(actual, target) == Abs(actual - target)

WithinTolerance(driftDiff, kmnoDiff) ==
    driftDiff <= Tolerance /\ kmnoDiff <= Tolerance

NeedsCorrection_any(diff) == diff >= 0
NeedsCorrection(diff) == diff > Tolerance

CorrectionDirection_flipped(actual, target) ==
    IF actual > target THEN "LONG" ELSE "SHORT"
CorrectionDirection(actual, target) ==
    IF actual > target THEN "SHORT" ELSE "LONG"

\* The venue's fill of an accepted market order.  A reduce-only order only
\* decreases the held quantity: it never increases or flips it.
Fill(q, dir, size, reduceOnly) ==
    LET delta == IF dir = "LONG" THEN size ELSE -size
    IN IF ~reduceOnly THEN q + delta
       ELSE IF q > 0 /\ delta < 0 THEN (IF q + delta < 0 THEN 0 ELSE q + delta)
       ELSE IF q < 0 /\ delta > 0 THEN (IF q + delta > 0 THEN 0 ELSE q + delta)
       ELSE q

\* executeOrder: the attempt that failed was the last one.
RetriesExhausted_late(attempt) == attempt > MAX_RETRIES
RetriesExhausted(attempt) == attempt = MAX_RETRIES

\* executeOrder: delay waited after a failed attempt that was not the last.
RetryDelay_double(attempt) == RETRY_DELAY_MS * 2 ^ attempt
RetryDelay(attempt) == RETRY_DELAY_MS * 2 ^ (attempt - 1)

\* shutdown(): a signal that arrives while a shutdown is in progress returns
\* without calling bot.stop().
ShutdownGuard_absent(flag) == FALSE
ShutdownGuard(flag) == flag

\* executeCycle: this.cycleCount++ past the guard.
NextOrdinal_double(n) == n + 2
NextOrdinal(n) == n + 1

\* executeCycle: value of isCycleRunning at the end of the finally block.
FlagAfterFinally_kept == TRUE
FlagAfterFinally == FALSE

\* Re-entrancy guard of executeCycle.
CycleGuard_absent(running) == FALSE
CycleGuard(running) == running

\* executeCycle: a cycle that finds the state EMERGENCY only force-closes.
EmergencyBranch_never(st) == FALSE
EmergencyBranch(st) == st = "EMERGENCY"

\* executeCycle: a hold cycle awaits reconcilePosition whatever its ordinal.
ReconcileDue_periodic(ordinal) == ordinal % 10 = 0
ReconcileDue(ordinal) == TRUE

\* start(): cycling is refused unless the bot is HEALTHY.
StartAllowed_never(st) == FALSE
StartAllowed(st) == st = "HEALTHY"

\* State assigned by the catch of executeCycle (changePosition's catch
\* assigns the same value and rethrows into it), by the catch of
\* reconcilePosition, and after the try body of executeCycle.
CycleCatchState_degraded == "DEGRADED"
CycleCatchState == "EMERGENCY"
ReconcileCatchState == "EMERGENCY"
CycleSuccessState == "HEALTHY"

-----------------------------------------------------------------------------
(* Control flow between suspension points.  r = [st, pos, t] carries       *)
(* this.state, this.currentPosition and the position of the running task;  *)
(* who is "cycle" (executeCycle) or "stop" (stop()).                        *)

At(pc) == [IdleTask EXCEPT !.pc = pc]

\* return out of the try body of executeCycle into its finally block, which
\* awaits capturePerformanceSnapshot.
CycleToFinally(r) == [r EXCEPT !.t = At("finally")]

CycleSucceeded(r) == CycleToFinally([r EXCEPT !.st = CycleSuccessState])

OpenPrologue(r, newSignal) ==
    [r EXCEPT !.t = [At("liq") EXCEPT !.op = "open", !.ctx = "transition",
                                      !.newSignal = newSignal]]

\* openPosition returns without an order after a failed validation; the
\* cycle goes on to the end of its try body.
RejectedOpen_fatal(r) == CycleToFinally([r EXCEPT !.st = CycleCatchState])
RejectedOpen(r) == CycleSucceeded(r)

\* closePosition has set currentPosition to null and returns to its caller.
CloseDone(who, r) ==
    LET r0 == [r EXCEPT !.pos = Null]
    IN IF who = "stop" THEN [r0 EXCEPT !.t = At("unsub")]
       ELSE IF r.t.ctx = "emergency" THEN CycleToFinally(r0)
       ELSE IF r.t.newSignal # 0 THEN OpenPrologue(r0, r.t.newSignal)
       ELSE CycleSucceeded(r0)

\* The next executeOrder call of the same operation, on leg B.
NextLeg(r) == [r EXCEPT !.t.leg = "KMNO", !.t.attempt = 1]

\* executeOrder threw after its last attempt.
OpFailed(who, r) ==
    IF who = "stop" THEN [r EXCEPT !.t = At("failed")]
    ELSE IF r.t.op = "reconcile"
         THEN [r EXCEPT !.st = ReconcileCatchState, !.t = At("rec_ret")]
    ELSE CycleToFinally([r EXCEPT !.st = CycleCatchState])

\* closePosition up to its first await.
ClosePrologue(who, r, ctx, newSignal, queryOk) ==
    LET p  == CloseReads(venue, r.pos, queryOk)
        r1 == [r EXCEPT !.t = [At("liq") EXCEPT !.op = "close", !.ctx = ctx,
                                   !.newSignal = newSignal, !.snap = p]]
    IN IF p.present THEN r1 ELSE CloseDone(who, r1)

\* changePosition up to its first await.
ChangePosition(r, newSignal, queryOk) ==
    IF r.pos.present THEN ClosePrologue("cycle", r, "transition", newSignal, queryOk)
    ELSE IF newSignal # 0 THEN OpenPrologue(r, newSignal)
    ELSE CycleSucceeded(r)

RecDriftDiff(t) == AbsDiff(t.snap.drift, TargetDrift(t.tgt))
RecKmnoDiff(t)  == AbsDiff(t.snap.kmno, TargetKmno(t.tgt))

\* reconcilePosition sets the internal position to the target values.
ReconcileDone(r) ==
    CycleSucceeded([r EXCEPT !.pos = Pos(TargetDrift(r.t.tgt),
                                         TargetKmno(r.t.tgt), r.t.tgt)])

\* reconcilePosition up to its first await.
ReconcilePrologue(r, queryOk) ==
    LET ex == GetCurrentSpreadPosition(venue, queryOk)
        t1 == [At("order") EXCEPT !.op = "reconcile", !.ctx = "hold",
                                  !.attempt = 1, !.snap = ex,
                                  !.tgt = CurrentSignal(r.pos)]
    IN IF ~r.pos.present /\ ~ex.present THEN CycleSucceeded(r)
       ELSE IF WithinTolerance(RecDriftDiff(t1), RecKmnoDiff(t1))
            THEN CycleSucceeded([r EXCEPT !.pos = ex])
       ELSE IF NeedsCorrection(RecDriftDiff(t1))
            THEN [r EXCEPT !.t = [t1 EXCEPT !.leg = "DRIFT"]]
       ELSE IF NeedsCorrection(RecKmnoDiff(t1))
            THEN [r EXCEPT !.t = [t1 EXCEPT !.leg = "KMNO"]]
       ELSE ReconcileDone([r EXCEPT !.t = t1])

\* The order that the task submits at its current position.
CurrentOrder(who, t) ==
    LET held   == IF t.leg = "DRIFT" THEN t.snap.drift ELSE t.snap.kmno
        target == IF t.leg = "DRIFT" THEN TargetDrift(t.tgt) ELSE TargetKmno(t.tgt)
    IN IF t.op = "open"
       THEN [by |-> who, op |-> "open", leg |-> t.leg,
             dir |-> IF t.leg = "DRIFT" THEN OpenDriftDirection(t.newSignal)
                     ELSE OpenKmnoDirection(t.newSignal),
             size |-> IF t.leg = "DRIFT" THEN QA ELSE QB,
             reduceOnly |-> FALSE]
       ELSE IF t.op = "close"
       THEN [by |-> who, op |-> "close", leg |-> t.leg,
             dir |-> CloseDirection(held), size |-> Abs(held),
             reduceOnly |-> TRUE]
       ELSE [by |-> who, op |-> "reconcile", leg |-> t.leg,
             dir |-> CorrectionDirection(held, target),
             size |-> AbsDiff(held, target), reduceOnly |-> FALSE]

\* placePerpOrder returned a transaction reference.
AfterOrderOk(who, r) ==
    IF r.t.op = "open"
    THEN IF r.t.leg = "DRIFT" THEN NextLeg(r)
         ELSE CycleSucceeded([r EXCEPT !.pos = OpenedPosition(r.t.newSignal)])
    ELSE IF r.t.op = "close"
    THEN IF r.t.leg = "DRIFT" THEN NextLeg(r) ELSE CloseDone(who, r)
    ELSE IF r.t.leg = "DRIFT" /\ NeedsCorrection(RecKmnoDiff(r.t))
         THEN NextLeg(r)
         ELSE ReconcileDone(r)

\* placePerpOrder threw: executeOrder throws after the last attempt, else it
\* waits the retry delay.
AfterOrderFail_nextleg(who, r) ==
    IF RetriesExhausted(r.t.attempt)
    THEN IF r.t.op # "reconcile" /\ r.t.leg = "DRIFT" THEN NextLeg(r)
         ELSE OpFailed(who, r)
    ELSE [r EXCEPT !.t.pc = "backoff"]
AfterOrderFail(who, r) ==
    IF RetriesExhausted(r.t.attempt) THEN OpFailed(who, r)
    ELSE [r EXCEPT !.t.pc = "backoff"]

\* The retry delay of executeOrder has elapsed: next attempt.
AfterRetryDelay(r) == [r EXCEPT !.t.pc = "order", !.t.attempt = r.t.attempt + 1]

\* stop() after the drain loop.
StopFinal(r, queryOk) ==
    IF r.pos.present THEN ClosePrologue("stop", r, "stop", 0, queryOk)
    ELSE [r EXCEPT !.t = At("unsub")]

LegOf(v, leg) == IF leg = "DRIFT" THEN v.drift ELSE v.kmno

LegSet(v, leg, q) ==
    IF leg = "DRIFT" THEN [v EXCEPT !.drift = q] ELSE [v EXCEPT !.kmno = q]

Ctx(who) == [st |-> state, pos |-> currentPosition, t |-> task[who]]

ApplyVenue(v, o) ==
    IF o.leg = "DRIFT"
    THEN [v EXCEPT !.drift = Fill(v.drift, o.dir, o.size, o.reduceOnly)]
    ELSE [v EXCEPT !.kmno = Fill(v.kmno, o.dir, o.size, o.reduceOnly)]

\* openPosition / closePosition after Promise.all of the two checkLiquidity
\* calls: open returns without an order when a validation fails, close logs
\* the failure and goes on.
LiquidityVerdicts(t, bookA, bookB) ==
    LET closing == t.op = "close"
        sizeA == IF closing THEN Abs(t.snap.drift) ELSE QA
        sizeB == IF closing THEN Abs(t.snap.kmno) ELSE QB
    IN [a |-> ValidateLiquidity(CheckLiquidity(bookA, sizeA), closing),
        b |-> ValidateLiquidity(CheckLiquidity(bookB, sizeB), closing)]

\* ok is the pair of verdicts of the two validations.
AfterLiquidity_gated(who, r, ok) ==
    IF OpenRejected(ok.a, ok.b)
    THEN IF who = "stop" THEN [r EXCEPT !.t = At("unsub")]
         ELSE CycleSucceeded(r)
    ELSE [r EXCEPT !.t.pc = "order", !.t.leg = "DRIFT", !.t.attempt = 1,
                   !.t.liqOk = TRUE]
AfterLiquidity(who, r, ok) ==
    LET closing == r.t.op = "close"
        go == [r EXCEPT !.t.pc = "order", !.t.leg = "DRIFT", !.t.attempt = 1,
                        !.t.liqOk = ok.a /\ ok.b]
    IN IF closing THEN go
       ELSE IF OpenRejected(ok.a, ok.b) THEN RejectedOpen(r)
       ELSE go

\* executeOrder after one placePerpOrder settled with outcome ok: c is the
\* record of the call so far, t the task that made the submission.
AfterSubmission(c, t, ok) ==
    LET base == IF t.attempt = 1 THEN [NoCall EXCEPT !.name = <<t.op, t.leg>>]
                ELSE c
        exhausted == ~ok /\ RetriesExhausted(t.attempt)
    IN [base EXCEPT
          !.outcomes = Append(@, ok),
          !.delays = IF ok \/ exhausted THEN @
                     ELSE Append(@, RetryDelay(t.attempt)),
          !.result = IF ok THEN "tx" ELSE IF exhausted THEN "threw" ELSE "pending",
          !.errName = IF exhausted THEN <<t.op, t.leg>> ELSE @,
          !.errAttempts = IF exhausted THEN t.attempt ELSE @]

-----------------------------------------------------------------------------
(* Actions *)

\* The bot and main() right after construction.
BotInit ==
    /\ state = "INITIALIZING"
    /\ currentPosition = Null
    /\ cycleCount = 0
    /\ isCycleRunning = FALSE
    /\ cycleInterval = FALSE
    /\ isShuttingDown = FALSE
    /\ stopCalls = 0
    /\ mainPc = "initDrift"
    /\ task = [cycle |-> IdleTask, stop |-> At("none")]
    /\ orders = <<>>
    /\ inflight = 0
    /\ invocations = 0
    /\ skipped = 0
    /\ rec = NoRec
    /\ sinceRec = FALSE
    /\ call = [cycle |-> NoCall, stop |-> NoCall]
    /\ cyc = NoCyc

\* One stop signal at most is delivered in the runs of Spec.
Init ==
    /\ BotInit
    /\ venue \in VenueInits
    /\ pendingSignals = 1
    /\ probe = NoProbe

Alive == mainPc # "exited"

\* The thread is inside a synchronous stretch of the cycle.
Busy == task.cycle.pc = "rec_ret"

SetCycle(r) ==
    /\ state' = r.st
    /\ currentPosition' = r.pos
    /\ task' = [task EXCEPT !.cycle = r.t]

\* executeCycle up to its first await, called with this.state = st and
\* this.currentPosition = pos.
ExecuteCycle(st, pos, queryOk) ==
    /\ invocations' = invocations + 1
    /\ IF CycleGuard(isCycleRunning)
       THEN /\ skipped < MaxSkips
            /\ skipped' = skipped + 1
            /\ state' = st
            /\ currentPosition' = pos
            /\ UNCHANGED <<cycleCount, isCycleRunning, task, venue, orders,
                           inflight, rec, sinceRec, call, cyc>>
       ELSE /\ cycleCount < MaxCycles
            /\ isCycleRunning' = TRUE
            /\ cycleCount' = NextOrdinal(cycleCount)
            /\ inflight' = inflight + 1
            /\ orders' = <<>>
            /\ call' = [call EXCEPT !.cycle = NoCall]
            /\ cyc' = [NoCyc EXCEPT
                         !.st0 = st, !.pos0 = pos, !.rejected = cyc.rejected,
                         !.queryFailed = (EmergencyBranch(st) /\ ~queryOk),
                         !.kind = IF EmergencyBranch(st) THEN "emergency"
                                  ELSE "none"]
            /\ LET r0 == [st |-> st, pos |-> pos, t |-> IdleTask]
               IN IF EmergencyBranch(st)
                  THEN /\ SetCycle(ClosePrologue("cycle", r0, "emergency", 0, queryOk))
                       /\ sinceRec' = FALSE
                  ELSE /\ SetCycle([r0 EXCEPT !.t = At("signal")])
                       /\ sinceRec' = sinceRec
            /\ UNCHANGED <<skipped, venue, rec>>

\* main(): await bot.initialize() resolves, then bot.start().
MainInitialize ==
    /\ mainPc = "initDrift"
    /\ \E driftOk, collateralOk, queryOk \in BOOLEAN :
         IF ~driftOk
         THEN /\ mainPc' = "exited"
              /\ UNCHANGED <<state, currentPosition, cycleCount, isCycleRunning,
                             cycleInterval, isShuttingDown, stopCalls, pendingSignals, probe, task, venue, orders,
                             inflight, invocations, skipped, rec, sinceRec,
                             call, cyc>>
         ELSE IF ~collateralOk
         THEN /\ mainPc' = "exited"
              /\ state' = "EMERGENCY"
              /\ UNCHANGED <<currentPosition, cycleCount, isCycleRunning,
                             cycleInterval, isShuttingDown, stopCalls, pendingSignals, probe, task, venue, orders,
                             inflight, invocations, skipped, rec, sinceRec,
                             call, cyc>>
         ELSE /\ mainPc' = "running"
              /\ IF StartAllowed("HEALTHY")
                 THEN /\ ExecuteCycle("HEALTHY",
                             GetCurrentSpreadPosition(venue, queryOk), TRUE)
                      /\ cycleInterval' = TRUE
                 ELSE /\ state' = "HEALTHY"
                      /\ currentPosition' = GetCurrentSpreadPosition(venue, queryOk)
                      /\ UNCHANGED <<cycleCount, isCycleRunning, cycleInterval,
                                     task, venue, orders, inflight, invocations,
                                     skipped, rec, sinceRec, call, cyc>>
              /\ UNCHANGED <<isShuttingDown, stopCalls, pendingSignals, probe>>

\* The interval timer fires: () => this.executeCycle().
TimerFire ==
    /\ Alive /\ ~Busy
    /\ cycleInterval
    /\ \E queryOk \in QueryOutcomes(~CycleGuard(isCycleRunning)
                                     /\ EmergencyBranch(state)) :
         ExecuteCycle(state, currentPosition, queryOk)
    /\ UNCHANGED <<cycleInterval, isShuttingDown, stopCalls, pendingSignals, probe, mainPc>>

\* await getSpreadSignal() settles; the cycle runs on to its next await.
SignalArrives ==
    /\ Alive /\ ~Busy
    /\ task.cycle.pc = "signal"
    /\ \E signalOk, queryOk \in BOOLEAN, signal \in Signals :
         LET r == Ctx("cycle")
             hold == signalOk /\ signal = CurrentSignal(currentPosition)
             due  == hold /\ ReconcileDue(cycleCount)
             r1 == IF ~signalOk THEN CycleToFinally([r EXCEPT !.st = CycleCatchState])
                   ELSE IF ~hold THEN ChangePosition(r, signal, queryOk)
                   ELSE IF due THEN ReconcilePrologue(r, queryOk)
                   ELSE CycleSucceeded(r)
         IN /\ SetCycle(r1)
            /\ rec' = IF due
                      THEN [NoRec EXCEPT
                              !.ran = TRUE, !.before = currentPosition,
                              !.seen = GetCurrentSpreadPosition(venue, queryOk),
                              !.queryOk = queryOk, !.second = sinceRec,
                              !.status = IF r1.t.pc = "order" THEN "running"
                                         ELSE "returned"]
                      ELSE rec
            /\ sinceRec' = (due /\ queryOk /\ r1.t.pc # "order")
            /\ cyc' = [cyc EXCEPT
                         !.signalFailed = ~signalOk,
                         !.queryFailed = /\ signalOk /\ ~queryOk
                                         /\ (due \/ (~hold /\ currentPosition.present)),
                         !.kind = IF ~signalOk THEN "none"
                                  ELSE IF hold THEN "hold" ELSE "transition",
                         !.to = IF signalOk THEN signal ELSE 0]
    /\ UNCHANGED <<cycleCount, isCycleRunning, cycleInterval, isShuttingDown, stopCalls, pendingSignals, probe,
                   mainPc, venue, orders, inflight, invocations, skipped, call>>

\* Promise.all of the two checkLiquidity calls settles.
LiquidityDone(who) ==
    /\ Alive /\ ~Busy
    /\ task[who].pc = "liq"
    /\ \E ok \in { LiquidityVerdicts(task[who], bookA, bookB) :
                       bookA, bookB \in BookInputs } :
         LET r1 == AfterLiquidity(who, Ctx(who), ok)
         IN /\ state' = r1.st
            /\ currentPosition' = r1.pos
            /\ task' = [task EXCEPT ![who] = r1.t]
            /\ cyc' = IF task[who].op = "open"
                      THEN [cyc EXCEPT !.okA = ok.a, !.okB = ok.b,
                                       !.liq = IF r1.t.pc = "order" THEN "passed"
                                               ELSE "rejected"]
                      ELSE cyc
    /\ sinceRec' = FALSE
    /\ UNCHANGED <<cycleCount, isCycleRunning, cycleInterval, isShuttingDown, stopCalls, pendingSignals, probe,
                   mainPc, venue, orders, inflight, invocations, skipped, rec,
                   call>>

\* One attempt of executeOrder: placePerpOrder settles.
OrderAttempt(who) ==
    /\ Alive /\ ~Busy
    /\ task[who].pc = "order"
    /\ \E ok \in BOOLEAN :
         LET t  == task[who]
             o  == CurrentOrder(who, t)
             r1 == IF ok THEN AfterOrderOk(who, Ctx(who))
                   ELSE AfterOrderFail(who, Ctx(who))
             v1 == IF ok THEN ApplyVenue(venue, o) ELSE venue
             n1 == IF t.attempt = 1 THEN rec.n + 1 ELSE rec.n
             st1 == IF r1.t.op = "reconcile" THEN "running"
                    ELSE IF r1.t.pc = "rec_ret" THEN "failed"
                    ELSE "returned"
         IN /\ venue' = v1
            /\ orders' = IF ok \/ RetriesExhausted(t.attempt)
                         THEN Append(orders, o @@ [ok |-> ok])
                         ELSE orders
            /\ state' = r1.st
            /\ currentPosition' = r1.pos
            /\ task' = [task EXCEPT ![who] = r1.t]
            /\ mainPc' = IF r1.t.pc = "failed" THEN "exited" ELSE mainPc
            /\ rec' = IF t.op # "reconcile" THEN rec
                      ELSE IF ~ok THEN [rec EXCEPT !.n = n1, !.status = st1]
                      ELSE [rec EXCEPT !.n = n1, !.status = st1,
                                       !.acc = @ \cup {t.leg},
                                       !.pre = LegSet(@, t.leg, LegOf(venue, t.leg)),
                                       !.post = LegSet(@, t.leg, LegOf(v1, t.leg))]
            /\ sinceRec' = (t.op = "reconcile" /\ st1 = "returned" /\ rec.queryOk)
            /\ call' = [call EXCEPT ![who] = AfterSubmission(@, t, ok)]
    /\ UNCHANGED <<cycleCount, isCycleRunning, cycleInterval, isShuttingDown, stopCalls, pendingSignals, probe,
                   inflight, invocations, skipped, cyc>>

\* The retry delay of executeOrder elapses; the next attempt is submitted.
RetryDelayElapsed(who) ==
    /\ Alive /\ ~Busy
    /\ task[who].pc = "backoff"
    /\ task' = [task EXCEPT ![who] = AfterRetryDelay(Ctx(who)).t]
    /\ UNCHANGED <<state, currentPosition, cycleCount, isCycleRunning,
                   cycleInterval, isShuttingDown, stopCalls, pendingSignals, probe, mainPc, venue, orders,
                   inflight, invocations, skipped, rec, sinceRec, call, cyc>>

\* executeCycle line after the if/else of the try body, reached when
\* reconcilePosition has swallowed its error.
ReconcileReturn ==
    /\ Alive
    /\ task.cycle.pc = "rec_ret"
    /\ SetCycle(CycleSucceeded(Ctx("cycle")))
    /\ UNCHANGED <<cycleCount, isCycleRunning, cycleInterval, isShuttingDown, stopCalls, pendingSignals, probe,
                   mainPc, venue, orders, inflight, invocations, skipped, rec,
                   sinceRec, call, cyc>>

\* finally block of executeCycle after the snapshot await.
CycleFinally ==
    /\ Alive /\ ~Busy
    /\ task.cycle.pc = "finally"
    /\ isCycleRunning' = FlagAfterFinally
    /\ inflight' = inflight - 1
    /\ task' = [task EXCEPT !.cycle = IdleTask]
    /\ orders' = <<>>
    /\ rec' = NoRec
    /\ call' = [call EXCEPT !.cycle = NoCall]
    /\ cyc' = [NoCyc EXCEPT !.rejected = IF cyc.liq = "rejected" THEN cyc.to
                                         ELSE 0]
    /\ UNCHANGED <<state, currentPosition, cycleCount, cycleInterval,
                   isShuttingDown, stopCalls, pendingSignals, probe, mainPc, venue, invocations, skipped,
                   sinceRec>>

SetStop(r) ==
    /\ state' = r.st
    /\ currentPosition' = r.pos
    /\ task' = [task EXCEPT !.stop = r.t]

\* A termination signal or a fatal-error handler calls shutdown(), which
\* calls bot.stop() unless a shutdown is already in progress.
Shutdown ==
    /\ Alive /\ ~Busy
    /\ pendingSignals > 0
    /\ pendingSignals' = pendingSignals - 1
    /\ IF ShutdownGuard(isShuttingDown)
       THEN UNCHANGED <<state, currentPosition, cycleCount, isCycleRunning,
                        cycleInterval, isShuttingDown, stopCalls, probe,
                        mainPc, task, venue, orders, inflight, invocations,
                        skipped, rec, sinceRec, call, cyc>>
       ELSE /\ isShuttingDown' = TRUE
            /\ stopCalls' = stopCalls + 1
            /\ cycleInterval' = FALSE
            /\ \E queryOk \in QueryOutcomes(~isCycleRunning
                                             /\ currentPosition.present) :
                 IF isCycleRunning
                 THEN SetStop([Ctx("stop") EXCEPT !.t = At("drain")])
                 ELSE SetStop(StopFinal(Ctx("stop"), queryOk))
            /\ sinceRec' = FALSE
            /\ UNCHANGED <<cycleCount, isCycleRunning, mainPc, venue, orders,
                           inflight, invocations, skipped, rec, call, cyc,
                           probe>>

\* The drain loop of stop() wakes and finds no cycle running.
StopDrained ==
    /\ Alive /\ ~Busy
    /\ task.stop.pc = "drain"
    /\ ~isCycleRunning
    /\ \E queryOk \in QueryOutcomes(currentPosition.present) :
         SetStop(StopFinal(Ctx("stop"), queryOk))
    /\ sinceRec' = FALSE
    /\ UNCHANGED <<cycleCount, isCycleRunning, cycleInterval, isShuttingDown, stopCalls, pendingSignals, probe,
                   mainPc, venue, orders, inflight, invocations, skipped, rec,
                   call, cyc>>

\* driftClient.unsubscribe() settles; shutdown() then exits the process.
StopUnsubscribed ==
    /\ Alive /\ ~Busy
    /\ task.stop.pc = "unsub"
    /\ \E ok \in BOOLEAN :
         task' = [task EXCEPT !.stop = At(IF ok THEN "done" ELSE "failed")]
    /\ mainPc' = "exited"
    /\ UNCHANGED <<state, currentPosition, cycleCount, isCycleRunning,
                   cycleInterval, isShuttingDown, stopCalls, pendingSignals, probe, venue, orders, inflight,
                   invocations, skipped, rec, sinceRec, call, cyc>>

Next ==
    \/ MainInitialize
    \/ TimerFire
    \/ SignalArrives
    \/ LiquidityDone("cycle")
    \/ LiquidityDone("stop")
    \/ OrderAttempt("cycle")
    \/ OrderAttempt("stop")
    \/ RetryDelayElapsed("cycle")
    \/ RetryDelayElapsed("stop")
    \/ ReconcileReturn
    \/ CycleFinally
    \/ Shutdown
    \/ StopDrained
    \/ StopUnsubscribed

Spec == Init /\ [][Next]_vars

\* The timer keeps firing and every awaited promise of a cycle settles.
CycleFairness ==
    /\ WF_vars(TimerFire)
    /\ WF_vars(SignalArrives)
    /\ WF_vars(LiquidityDone("cycle"))
    /\ WF_vars(OrderAttempt("cycle"))
    /\ WF_vars(RetryDelayElapsed("cycle"))
    /\ WF_vars(ReconcileReturn)
    /\ WF_vars(CycleFinally)

\* Start of the process used for the progress properties: an exact spread
\* (the first cycle can hold it, close it or turn it around).
LiveVenueInits == { V(QA, -QB) }

LiveInit == Init /\ venue \in LiveVenueInits

LiveSpec == LiveInit /\ [][Next]_vars /\ CycleFairness

\* Runs in which several stop signals and fatal errors are delivered, from
\* a flat venue or an exact spread.
SignalVenueInits == { V(0, 0), V(QA, -QB) }

SignalInit ==
    /\ BotInit
    /\ venue \in SignalVenueInits
    /\ pendingSignals = MaxSignals
    /\ probe = NoProbe

SignalSpec == SignalInit /\ [][Next]_vars

\* checkLiquidity on its own: books the DLOB endpoint can return (BookInputs,
\* two levels that add up exactly to an order size, three levels, an empty
\* first level) and the order sizes asked for, in tenths of a unit.
ProbeBooks ==
    BookInputs \cup
    { [ok |-> TRUE, levels |-> <<Level(1000, 50), Level(1010, 50)>>],
      [ok |-> TRUE, levels |-> <<Level(1000, 30), Level(1005, 30), Level(1010, 30)>>],
      [ok |-> TRUE, levels |-> <<Level(1000, 0), Level(1010, 200)>>] }

ProbeSizes == {0, 10, 50, 80, 90, 100, 1000}

LiqInit ==
    /\ BotInit
    /\ venue = Flat
    /\ pendingSignals = 0
    /\ probe \in { [NoProbe EXCEPT !.book = b, !.size = n] :
                     b \in ProbeBooks, n \in ProbeSizes }

\* One call of checkLiquidity settles.
ProbeCheckLiquidity ==
    /\ ~probe.done
    /\ probe' = [probe EXCEPT
                   !.result = CheckLiquidity(probe.book, probe.size),
                   !.counted = IF probe.book.ok
                               THEN Walk(probe.book.levels, 1, probe.size, 0, 0).size
                               ELSE 0,
                   !.done = TRUE]
    /\ UNCHANGED <<state, currentPosition, cycleCount, isCycleRunning,
                   cycleInterval, isShuttingDown, stopCalls, pendingSignals,
                   mainPc, task, venue, orders, inflight, invocations,
                   skipped, rec, sinceRec, call, cyc>>

LiqNext == ProbeCheckLiquidity

LiqSpec == LiqInit /\ [][LiqNext]_vars

-----------------------------------------------------------------------------
(* Properties *)

TypeOK ==
    /\ state \in {"INITIALIZING", "HEALTHY", "EMERGENCY", "SHUTDOWN"}
    /\ currentPosition.present \in BOOLEAN
    /\ cycleCount \in 0..MaxCycles
    /\ isCycleRunning \in BOOLEAN
    /\ mainPc \in {"initDrift", "running", "exited"}
    /\ stopCalls \in 0..1
    /\ pendingSignals \in 0..MaxSignals
    /\ probe = NoProbe

\* An executeCycle invocation arrives in this step while a cycle is in flight.
InvokedWhileRunning == invocations' = invocations + 1 /\ isCycleRunning

\* C1: at most one cycle is in flight; an invocation that arrives while
\* isCycleRunning is true changes neither the venue, the orders, the task
\* positions (no signal request), the position, the state nor the cycle
\* counter, and a cycle only ever begins in the step of an invocation that
\* found no cycle running (nothing is queued).
C1_ReentrancyGuard ==
    /\ [](inflight <= 1)
    /\ [][InvokedWhileRunning =>
            UNCHANGED <<venue, orders, task, currentPosition, state,
                        cycleCount, inflight, isCycleRunning>>]_vars
    /\ [][cycleCount' # cycleCount =>
            (invocations' = invocations + 1 /\ ~isCycleRunning)]_vars

C1_Witness == skipped > 0 /\ isCycleRunning /\ inflight = 1

\* Leg A of an open was confirmed and leg B failed its last attempt.
LegBExhausted ==
    \E i, j \in DOMAIN orders :
        /\ i < j
        /\ orders[i].by = "cycle" /\ orders[i].op = "open"
        /\ orders[i].leg = "DRIFT" /\ orders[i].ok
        /\ orders[j].by = "cycle" /\ orders[j].op = "open"
        /\ orders[j].leg = "KMNO" /\ ~orders[j].ok

\* C2: when the cycle ends after leg A of an open succeeded and leg B
\* exhausted its retries, the state is EMERGENCY and the cycle has submitted
\* no order on leg A after the confirmed one.
C2_PartialOpenEscalates ==
    (task.cycle.pc = "finally" /\ LegBExhausted) =>
        /\ state = "EMERGENCY"
        /\ \A i, k \in DOMAIN orders :
             (orders[i].by = "cycle" /\ orders[i].op = "open"
                /\ orders[i].leg = "DRIFT" /\ orders[i].ok /\ k > i)
             => ~(orders[k].by = "cycle" /\ orders[k].leg = "DRIFT")

C2_Witness == task.cycle.pc = "finally" /\ LegBExhausted

\* C3: once the state is EMERGENCY no step changes it.
C3_EmergencyAbsorbing ==
    [][state = "EMERGENCY" => state' = "EMERGENCY"]_vars

\* C4: when stop() has completed without error the venue holds no position
\* on either leg.
C4_StopLeavesVenueFlat ==
    task.stop.pc = "done" => (venue.drift = 0 /\ venue.kmno = 0)

\* stop() is in or past its final close-and-cleanup pass.
StopInFinalPass == task.stop.pc \in {"liq", "order", "unsub", "done", "failed"}

\* C5: while stop() is in or past its final pass no cycle is in flight.
C5_StopExcludesCycles == StopInFinalPass => ~isCycleRunning

\* C6: when stop() has completed the state is SHUTDOWN.
C6_StopSetsShutdown == task.stop.pc = "done" => state = "SHUTDOWN"

SignInvariant(p) ==
    /\ p.signal = 1  => (p.drift > 0 /\ p.kmno < 0)
    /\ p.signal = -1 => (p.drift < 0 /\ p.kmno > 0)
    /\ p.signal = 0  => (p.drift = 0 /\ p.kmno = 0)

\* C7: a non-absent internal position satisfies the sign invariant.
C7_SignInvariant == currentPosition.present => SignInvariant(currentPosition)

\* Distance of the venue position read by the run from the target implied by
\* the internal position the run started with.
RecTargetSignal == CurrentSignal(rec.before)
RecDistDrift == Abs(rec.seen.drift - RecTargetSignal * DRIFT_QUANTITY * TenthsPerUnit)
RecDistKmno  == Abs(rec.seen.kmno + RecTargetSignal * KMNO_QUANTITY * TenthsPerUnit)

\* C8: a reconcile run that finds both legs within 0.1 of the target submits
\* no corrective order.
C8_WithinToleranceNoOrder ==
    (rec.ran /\ RecDistDrift <= 1 /\ RecDistKmno <= 1) => rec.n = 0

C8_Witness ==
    /\ rec.ran /\ rec.status = "returned" /\ rec.n = 0
    /\ RecDistDrift = 1 /\ RecDistKmno <= 1
    /\ RecTargetSignal = 1

\* C9: a reconcile run that directly follows a completed run, both having
\* read the venue position, submits no corrective order.
C9_ReconcileIdempotent == (rec.ran /\ rec.second /\ rec.queryOk) => rec.n = 0

\* C10: after a completed run that submitted corrections the venue position
\* read back equals the target on both legs.
C10_VenueEqualsTarget ==
    (rec.ran /\ rec.queryOk /\ rec.status = "returned" /\ rec.n > 0
       /\ task.stop.pc = "none") =>
        /\ venue.drift = RecTargetSignal * DRIFT_QUANTITY * TenthsPerUnit
        /\ venue.kmno = -RecTargetSignal * KMNO_QUANTITY * TenthsPerUnit

RecLegTarget(leg) ==
    IF leg = "DRIFT" THEN RecTargetSignal * DRIFT_QUANTITY * TenthsPerUnit
    ELSE -RecTargetSignal * KMNO_QUANTITY * TenthsPerUnit

\* C10 (amended): after a completed run that submitted corrections, a leg
\* read more than 0.1 away from the target has had one order accepted that
\* moved it by exactly the difference read (so a correctly read leg equals
\* the target after its order), and a leg read within 0.1 of the target has
\* received no order.
C10_CorrectsLegsBeyondTolerance ==
    (rec.ran /\ rec.status = "returned" /\ rec.n > 0) =>
        \A leg \in {"DRIFT", "KMNO"} :
            IF Abs(LegOf(rec.seen, leg) - RecLegTarget(leg)) > 1
            THEN /\ leg \in rec.acc
                 /\ LegOf(rec.post, leg) - LegOf(rec.pre, leg)
                      = RecLegTarget(leg) - LegOf(rec.seen, leg)
                 /\ (LegOf(rec.pre, leg) = LegOf(rec.seen, leg)
                       => LegOf(rec.post, leg) = RecLegTarget(leg))
            ELSE leg \notin rec.acc

C10_Witness ==
    /\ rec.ran /\ rec.queryOk /\ rec.status = "returned" /\ rec.n > 0
    /\ rec.acc = {"DRIFT"}
    /\ venue.drift = RecLegTarget("DRIFT")
    /\ venue.kmno # RecLegTarget("KMNO")

\* The run read this leg more than 0.1 away from its target.
RecLegBeyond(leg) == Abs(LegOf(rec.seen, leg) - RecLegTarget(leg)) > 1

\* C11: every corrective order of a reconcile run is for a leg read more than
\* 0.1 away from its target, is the only one for that leg, is SHORT when the
\* quantity read is above the target and LONG when below, and is sized to
\* the absolute difference; a run that returns normally has had one order
\* confirmed for each such leg.
C11_OneOrderPerLegBeyondTolerance ==
    rec.ran =>
        /\ \A i \in DOMAIN orders :
             orders[i].op = "reconcile" =>
                 LET leg    == orders[i].leg
                     actual == LegOf(rec.seen, leg)
                     target == RecLegTarget(leg)
                 IN /\ RecLegBeyond(leg)
                    /\ orders[i].dir = IF actual > target THEN "SHORT" ELSE "LONG"
                    /\ orders[i].size = Abs(actual - target)
                    /\ \A j \in DOMAIN orders :
                         (orders[j].op = "reconcile" /\ orders[j].leg = leg)
                         => j = i
        /\ rec.status = "returned" =>
             \A leg \in {"DRIFT", "KMNO"} :
                 RecLegBeyond(leg) =>
                     \E i \in DOMAIN orders :
                         /\ orders[i].op = "reconcile"
                         /\ orders[i].leg = leg /\ orders[i].ok

C11_Witness ==
    /\ rec.ran /\ rec.status = "returned" /\ RecTargetSignal = 1
    /\ rec.seen.drift = 2 * QA /\ rec.seen.kmno = -QB
    /\ Len(orders) = 1
    /\ orders[1].op = "reconcile" /\ orders[1].leg = "DRIFT"
    /\ orders[1].dir = "SHORT" /\ orders[1].size = QA /\ orders[1].ok

\* The correction brings the held quantity closer to zero without crossing it.
ReducesMagnitude(actual, target) ==
    Abs(target) < Abs(actual) /\ actual * target >= 0

\* C12: a corrective order of a run that read the venue position is
\* reduce-only exactly when it reduces the magnitude of the held quantity.
C12_ReduceOnlyWhenReducing ==
    (rec.ran /\ rec.queryOk) =>
        \A i \in DOMAIN orders :
            orders[i].op = "reconcile" =>
                orders[i].reduceOnly =
                    ReducesMagnitude(LegOf(rec.seen, orders[i].leg),
                                     RecLegTarget(orders[i].leg))

\* C13: a cycle whose reconcile run had a corrective order exhaust its
\* retries ends in EMERGENCY.
C13_FailedReconcileEscalates ==
    (task.cycle.pc = "finally" /\ rec.ran /\ rec.status = "failed")
        => state = "EMERGENCY"

\* The cycle in flight is a transition from a held spread to the opposite one
\* and has entered openPosition.
ReversalOpenBegun ==
    /\ task.cycle.op = "open"
    /\ cyc.pos0.present /\ cyc.pos0.signal # 0
    /\ task.cycle.newSignal = -cyc.pos0.signal

\* C14: when the open of a reversal begins, both close orders of the old
\* spread have been confirmed.
C14_CloseConfirmedBeforeOpen ==
    ReversalOpenBegun =>
        \E i, j \in DOMAIN orders :
            /\ i < j
            /\ orders[i].op = "close" /\ orders[i].leg = "DRIFT" /\ orders[i].ok
            /\ orders[j].op = "close" /\ orders[j].leg = "KMNO" /\ orders[j].ok

\* C15: a cycle that started FLAT, LONG or SHORT, read the venue position
\* without error and had the liquidity validation of its open fail has
\* submitted no order and ends with the position and state it started with.
C15_RejectedTransitionSkipped ==
    (/\ task.cycle.pc = "finally" /\ cyc.liq = "rejected"
     /\ ~cyc.queryFailed
     /\ cyc.pos0.present => (cyc.pos0.signal # 0 /\ SignInvariant(cyc.pos0))) =>
        /\ orders = <<>>
        /\ currentPosition = cyc.pos0
        /\ state = cyc.st0

\* An order of openPosition has been submitted in the cycle in flight.
OpenOrderSubmitted ==
    \/ task.cycle.op = "open" /\ task.cycle.pc \in {"order", "backoff"}
    \/ \E i \in DOMAIN orders : orders[i].op = "open"

\* C16: an open submits an order only when the liquidity validation of both
\* legs passed; when either failed it submits none.
C16_OpenGatedOnBothLegs ==
    /\ OpenOrderSubmitted => (cyc.liq = "passed" /\ cyc.okA /\ cyc.okB)
    /\ (cyc.liq # "none" /\ (~cyc.okA \/ ~cyc.okB)) => ~OpenOrderSubmitted

C16_Witness ==
    /\ task.cycle.pc = "finally" /\ cyc.liq = "rejected"
    /\ cyc.okA /\ ~cyc.okB
    /\ orders = <<>>

\* C17: in open and close, a leg-B order is in flight or logged only directly
\* after the confirmed leg-A order of the same operation; after a leg-A order
\* that exhausted its retries there is no leg-B order.
C17_LegsSequential ==
    /\ \A who \in {"cycle", "stop"} :
         (/\ task[who].pc \in {"order", "backoff"}
          /\ task[who].op \in {"open", "close"}
          /\ task[who].leg = "KMNO")
         => /\ Len(orders) > 0
            /\ orders[Len(orders)].by = who
            /\ orders[Len(orders)].op = task[who].op
            /\ orders[Len(orders)].leg = "DRIFT"
            /\ orders[Len(orders)].ok
    /\ \A j \in DOMAIN orders :
         (orders[j].op \in {"open", "close"} /\ orders[j].leg = "KMNO")
         => /\ j > 1
            /\ orders[j - 1].by = orders[j].by
            /\ orders[j - 1].op = orders[j].op
            /\ orders[j - 1].leg = "DRIFT"
            /\ orders[j - 1].ok

C17_Witness ==
    /\ task.cycle.pc = "finally"
    /\ Len(orders) > 0
    /\ orders[Len(orders)].op = "open" /\ orders[Len(orders)].leg = "DRIFT"
    /\ ~orders[Len(orders)].ok

\* C18: an executeOrder call makes at most MAX_RETRIES submissions, none
\* after a successful one; it has returned exactly when its last submission
\* succeeded and has thrown exactly when MAX_RETRIES submissions all failed,
\* the error naming the order and MAX_RETRIES attempts; once it has returned
\* or thrown the task makes no further attempt of that call.
C18_ExecuteOrderBounded ==
    \A who \in {"cycle", "stop"} :
        LET c == call[who]
            n == Len(c.outcomes)
        IN /\ n <= MAX_RETRIES
           /\ \A k \in 1..(n - 1) : ~c.outcomes[k]
           /\ (c.result = "tx") <=> (n > 0 /\ c.outcomes[n])
           /\ (c.result = "threw") <=>
                  (n = MAX_RETRIES /\ \A k \in 1..n : ~c.outcomes[k])
           /\ c.result = "threw" =>
                  (c.errName = c.name /\ c.errAttempts = MAX_RETRIES)
           /\ c.result \in {"tx", "threw"} => task[who].attempt <= 1

C18_Witness ==
    /\ call.cycle.result = "threw"
    /\ Len(call.cycle.outcomes) = MAX_RETRIES
    /\ call.cycle.errAttempts = MAX_RETRIES

\* Number of failed submissions of a call.
Failures(c) == Cardinality({k \in DOMAIN c.outcomes : ~c.outcomes[k]})

\* C19: the k-th delay waited by an executeOrder call is 1000 * 2^(k-1) ms,
\* one delay is waited after each failed attempt, and none after the failed
\* attempt that makes the call throw.
C19_BackoffDelays ==
    \A who \in {"cycle", "stop"} :
        LET c == call[who]
        IN /\ \A k \in DOMAIN c.delays : c.delays[k] = 1000 * 2 ^ (k - 1)
           /\ Len(c.delays) = IF c.result = "threw" THEN Failures(c) - 1
                               ELSE Failures(c)

C19_Witness ==
    /\ call.cycle.result = "threw"
    /\ call.cycle.delays = <<1000, 2000>>

\* C20: a cycle whose signal request failed ends DEGRADED, has submitted no
\* order and leaves the internal position as it was.
C20_SignalFailureDegrades ==
    (task.cycle.pc = "finally" /\ cyc.signalFailed) =>
        /\ state = "DEGRADED"
        /\ orders = <<>>
        /\ currentPosition = cyc.pos0

\* No stop was requested, and in a force-close cycle the venue answered the
\* position query and accepted every order submitted so far.
VenueAccepts ==
    /\ ~isShuttingDown
    /\ cyc.kind = "emergency" =>
         /\ ~cyc.queryFailed
         /\ \A k \in DOMAIN call.cycle.outcomes : call.cycle.outcomes[k]
         /\ \A i \in DOMAIN orders : orders[i].ok

\* The bot is in EMERGENCY between two cycles, the timer is armed and the
\* cycle counter has not reached the bound of the model.
EmergencyAtRest ==
    /\ state = "EMERGENCY" /\ ~isCycleRunning
    /\ mainPc = "running" /\ cycleInterval
    /\ cycleCount < MaxCycles

\* C21: if the venue keeps accepting, then from EMERGENCY between cycles the
\* venue position eventually becomes flat on both legs, whatever the
\* internal position record is.
C21_EmergencyEventuallyFlat ==
    []VenueAccepts => [](EmergencyAtRest => <>(venue = Flat))

C21_Witness ==
    /\ cyc.kind = "emergency" /\ ~cyc.pos0.present
    /\ task.cycle.pc = "finally"
    /\ venue = Flat
    /\ \E i \in DOMAIN orders :
         orders[i].op = "close" /\ orders[i].size > 0 /\ orders[i].ok

\* C22: when initialize fails, either at the venue connection or at the
\* reconstruction of the position (the internal record then differs from
\* the position the venue holds), the state it leaves is EMERGENCY and no
\* cycle has been started.
C22_FailedInitializeIsEmergency ==
    [][ ( /\ mainPc = "initDrift" /\ mainPc' # "initDrift"
          /\ ~isShuttingDown
          /\ \/ mainPc' = "exited"
             \/ currentPosition' # GetCurrentSpreadPosition(venue, TRUE) )
        => (state' = "EMERGENCY" /\ cycleCount' = 0) ]_vars

C24_EmergencyCycleOnlyCloses ==
    /\ [](cyc.st0 = "EMERGENCY" =>
            /\ cyc.kind = "emergency"
            /\ task.cycle.pc \notin {"signal", "rec_ret"}
            /\ task.cycle.op \in {"close", "none"}
            /\ ~rec.ran
            /\ ~cyc.signalFailed /\ cyc.to = 0 /\ cyc.liq = "none"
            /\ \A i \in DOMAIN orders :
                 orders[i].op = "close" /\ orders[i].reduceOnly
            /\ task.cycle.pc \in {"order", "backoff"} =>
                 LET o == CurrentOrder("cycle", task.cycle)
                 IN o.op = "close" /\ o.reduceOnly)
    /\ [][ ( /\ state = "EMERGENCY" /\ venue = Flat
             /\ ~isCycleRunning /\ isCycleRunning' )
           => (task'.cycle.pc = "finally" /\ orders' = <<>> /\ venue' = Flat) ]_vars

C24_Witness ==
    /\ cyc.st0 = "EMERGENCY" /\ cyc.pos0.present
    /\ task.cycle.op = "close" /\ task.cycle.pc = "order"
    /\ task.cycle.leg = "KMNO"
    /\ Len(orders) = 1 /\ orders[1].ok

\* A close is submitting its orders.
CloseSubmitting(who) ==
    task[who].op = "close" /\ task[who].pc \in {"order", "backoff"}

\* C25 (as stated): close submits its orders only after the liquidity
\* validation of both legs has passed under the close slippage bound.
C25_CloseGatedOnLiquidity ==
    \A who \in {"cycle", "stop"} : CloseSubmitting(who) => task[who].liqOk

\* C25 (amended): close validates the liquidity of both legs under the close
\* slippage bound and then submits its orders, leg A first, whether or not
\* the validation passed.
C25_CloseForcedAfterValidation ==
    [][ \A who \in {"cycle", "stop"} :
          ( /\ task[who].op = "close" /\ task[who].pc = "liq"
            /\ task'[who] # task[who] )
          => /\ task'[who].op = "close" /\ task'[who].pc = "order"
             /\ task'[who].leg = "DRIFT" /\ task'[who].attempt = 1
             /\ task'[who].snap = task[who].snap
             /\ \E bookA, bookB \in BookInputs :
                  task'[who].liqOk =
                    ( /\ ValidateLiquidity(
                           CheckLiquidity(bookA, Abs(task[who].snap.drift)), TRUE)
                      /\ ValidateLiquidity(
                           CheckLiquidity(bookB, Abs(task[who].snap.kmno)), TRUE) ) ]_vars

C25_Witness ==
    \E who \in {"cycle", "stop"} :
       /\ task[who].op = "close" /\ ~task[who].liqOk
       /\ task[who].pc = "order" /\ task[who].leg = "KMNO"
       /\ \E i \in DOMAIN orders :
            orders[i].op = "close" /\ orders[i].leg = "DRIFT" /\ orders[i].ok

\* C26: every order of a close is reduce-only, sized to the absolute value of
\* the held quantity of its leg and directed against its sign (SHORT for a
\* long leg, LONG for a short leg); a step of a close never increases or
\* flips a leg at the venue.
C26_CloseOrdersReduce ==
    /\ [](\A who \in {"cycle", "stop"} :
            CloseSubmitting(who) =>
              LET o    == CurrentOrder(who, task[who])
                  held == LegOf(task[who].snap, task[who].leg)
              IN /\ o.reduceOnly
                 /\ o.size = Abs(held)
                 /\ held > 0 => o.dir = "SHORT"
                 /\ held < 0 => o.dir = "LONG")
    /\ [](\A i \in DOMAIN orders :
            orders[i].op = "close" => orders[i].reduceOnly)
    /\ [][ \A who \in {"cycle", "stop"} :
             (CloseSubmitting(who) /\ venue' # venue)
             => /\ Abs(venue'.drift) <= Abs(venue.drift)
                /\ Abs(venue'.kmno) <= Abs(venue.kmno)
                /\ venue'.drift * venue.drift >= 0
                /\ venue'.kmno * venue.kmno >= 0 ]_vars

C26_Witness ==
    /\ venue = Flat
    /\ Len(orders) = 2
    /\ orders[1].op = "close" /\ orders[1].leg = "DRIFT" /\ orders[1].ok
    /\ orders[1].dir = "LONG" /\ orders[1].size = QA
    /\ orders[2].op = "close" /\ orders[2].leg = "KMNO" /\ orders[2].ok
    /\ orders[2].dir = "SHORT" /\ orders[2].size = QB

\* C27: outside reconciliation the internal position changes only after
\* confirmed execution: it becomes an open spread only when both open orders
\* were confirmed, and from a LONG or SHORT spread to absent, while the
\* venue holds a position, only when both close orders were confirmed.
C27_PositionChangesOnlyAfterConfirmation ==
    [][ ( /\ currentPosition' # currentPosition
          /\ mainPc # "initDrift" /\ ~rec'.ran
          /\ currentPosition.present => currentPosition.signal # 0
          /\ venue # Flat )
        => \A leg \in {"DRIFT", "KMNO"} :
             \E i \in DOMAIN orders' :
                /\ orders'[i].leg = leg /\ orders'[i].ok
                /\ orders'[i].op = IF currentPosition'.present THEN "open"
                                   ELSE "close" ]_vars

\* C28: when the position query of a reconciliation fails while the bot
\* holds a LONG or SHORT spread, the reconciliation submits no corrective order and the
\* cycle ends in EMERGENCY.
C28_FailedQueryStopsReconcile ==
    (rec.ran /\ ~rec.queryOk /\ rec.before.signal # 0) =>
       /\ rec.n = 0
       /\ task.cycle.op # "reconcile"
       /\ task.cycle.pc = "finally" => state = "EMERGENCY"

\* C29: the state goes from INITIALIZING to HEALTHY only with the internal
\* position equal to the position the venue reports (absent when the venue
\* is flat).
C29_HealthyOnlyAfterReconstruction ==
    [][ (state = "INITIALIZING" /\ state' = "HEALTHY")
        => currentPosition' = GetCurrentSpreadPosition(venue, TRUE) ]_vars

\* C30: at the end of a cycle whose transition toward signal s completed
\* (the state is HEALTHY and the open was not rejected), the internal
\* position is {s*QA, -s*QB, s} when s is LONG or SHORT and absent when s is
\* FLAT.
C30_TransitionRecordsTarget ==
    ( /\ task.cycle.pc = "finally" /\ cyc.kind = "transition"
      /\ state = "HEALTHY" /\ cyc.liq # "rejected" )
    => currentPosition = IF cyc.to = 0 THEN Null
                         ELSE Pos(cyc.to * QA, -cyc.to * QB, cyc.to)

C30_Witness ==
    /\ task.cycle.pc = "finally" /\ cyc.kind = "transition"
    /\ state = "HEALTHY" /\ cyc.liq = "passed"
    /\ cyc.pos0.present /\ cyc.pos0.signal = -1 /\ cyc.to = 1
    /\ currentPosition = Pos(QA, -QB, 1)
    /\ venue = V(QA, -QB)

\* C31: the cycle ordinal increases by exactly one in a step that starts a
\* cycle (an invocation that passes the guard) and is left unchanged by every
\* other step: a skipped invocation, stop(), a failure inside a cycle.
C31_OrdinalCountsCycles ==
    [][ cycleCount' = IF ~isCycleRunning /\ isCycleRunning'
                      THEN cycleCount + 1 ELSE cycleCount ]_vars

C31_Witness ==
    /\ cycleCount = 2 /\ skipped >= 1
    /\ state = "EMERGENCY" /\ cyc.signalFailed
    /\ isShuttingDown

\* C32: while the final close of stop() is running the process does not exit:
\* stop() goes on to its unsubscribe step whether the close succeeds or fails.
C32_StopAlwaysUnsubscribes ==
    [][ (task.stop.op = "close" /\ mainPc # "exited") => mainPc' # "exited" ]_vars

\* C33: a cycle whose open was rejected by the liquidity validation ends
\* HEALTHY with no internal position; the next cycle is an ordinary cycle, and
\* when it obtains the same signal it attempts the open again and records the
\* position once the validation passes and both orders are confirmed.
C33_RejectionRetained ==
    /\ (task.cycle.pc = "finally" /\ cyc.liq = "rejected") =>
          (state = "HEALTHY" /\ ~currentPosition.present)
    /\ (cyc.rejected # 0 /\ cyc.st0 # "none") =>
          (cyc.st0 = "HEALTHY" /\ ~cyc.pos0.present /\ cyc.kind # "emergency")
    /\ (cyc.rejected # 0 /\ cyc.kind = "transition" /\ cyc.to = cyc.rejected) =>
          /\ \/ task.cycle.op = "open" /\ task.cycle.newSignal = cyc.to
             \/ task.cycle.pc = "finally" /\ cyc.liq # "none"
          /\ ( /\ task.cycle.pc = "finally" /\ cyc.liq = "passed"
               /\ state = "HEALTHY" )
             => currentPosition = OpenedPosition(cyc.to)

C33_Witness ==
    /\ cyc.rejected = 1 /\ cyc.kind = "transition" /\ cyc.to = 1
    /\ task.cycle.pc = "finally" /\ cyc.liq = "passed"
    /\ state = "HEALTHY"
    /\ currentPosition = Pos(QA, -QB, 1)
    /\ venue = V(QA, -QB)

\* The awaits of the cycle: each is resumed by one step of the cycle
\* (SignalArrives, LiquidityDone, OrderAttempt, RetryDelayElapsed,
\* ReconcileReturn, CycleFinally).
CycleAwaits == {"signal", "liq", "order", "backoff", "rec_ret", "finally"}

\* Number of awaits the cycle in flight can still go through, at most, before
\* it has returned: a measure that every step of the cycle decreases.
CycleRank(t) ==
    LET stage == CASE t.pc = "idle" -> 0
                   [] t.pc = "finally" -> 1
                   [] t.pc = "rec_ret" -> 2
                   [] t.pc = "signal" -> 5
                   [] OTHER -> IF t.op = "close" THEN 4 ELSE 3
        within == IF t.pc = "liq" THEN 50
                  ELSE IF t.pc \in {"order", "backoff"}
                  THEN (IF t.leg = "DRIFT" THEN 10 ELSE 0)
                       + 2 * (MAX_RETRIES - t.attempt)
                       + (IF t.pc = "order" THEN 1 ELSE 0)
                  ELSE 0
    IN 100 * stage + within

\* C34: the re-entrancy flag is set exactly while a cycle is in flight; a
\* cycle in flight waits at one of its awaits, every step of it, failed or
\* not, brings it closer to its return, and the return resets the flag.
C34_CycleAlwaysReturns ==
    /\ [](isCycleRunning <=> task.cycle.pc # "idle")
    /\ [](isCycleRunning => task.cycle.pc \in CycleAwaits)
    /\ [][ (isCycleRunning /\ task'.cycle # task.cycle)
           => CycleRank(task'.cycle) < CycleRank(task.cycle) ]_vars
    /\ [][ (isCycleRunning /\ task'.cycle.pc = "idle") => ~isCycleRunning' ]_vars

C34_Witness ==
    /\ state = "EMERGENCY" /\ cycleCount = 1
    /\ ~isCycleRunning /\ task.cycle.pc = "idle"
    /\ mainPc = "running" /\ cycleInterval

RECURSIVE SumSizes(_)
\* Total size of the levels of a book side.
SumSizes(levels) ==
    IF Len(levels) = 0 THEN 0 ELSE Head(levels).size + SumSizes(Tail(levels))

\* C35: checkLiquidity returns canFill = TRUE if and only if the book was
\* fetched, is not empty and the sizes of its levels add up to at least the
\* desired size; the walk never counts more than the desired size.
C35_CanFillIffBookCovers ==
    probe.done =>
       /\ probe.result.canFill <=>
            ( /\ probe.book.ok /\ Len(probe.book.levels) > 0
              /\ SumSizes(probe.book.levels) >= probe.size )
       /\ probe.counted <= probe.size
       /\ probe.result.canFill => probe.counted = probe.size

C35_Witness ==
    /\ probe.done /\ ~probe.result.canFill
    /\ probe.book.ok /\ SumSizes(probe.book.levels) = 80
    /\ probe.size = 100 /\ probe.counted = 80

\* C36: when reconcilePosition has returned normally after a successful
\* position query, the signal of the internal position equals the signal it
\* had before (FLAT when it was absent).
C36_ReconcileKeepsSignal ==
    ( /\ rec.ran /\ rec.queryOk /\ rec.status = "returned"
      /\ task.cycle.pc = "finally" )
    => CurrentSignal(currentPosition) = CurrentSignal(rec.before)

\* C37: every order about to be submitted has a size greater than zero.
C37_NoZeroSizeOrder ==
    \A who \in {"cycle", "stop"} :
       task[who].pc = "order" => CurrentOrder(who, task[who]).size > 0

\* C38: when stop() has ended, it is not by the throw of its final close: the
\* close and the cleanup after it ran to completion.
C38_StopRunsToCompletion ==
    task.stop.pc = "failed" => call.stop.result # "threw"

C40_StopInvokedOnce ==
    /\ [](stopCalls <= 1)
    /\ [](isShuttingDown <=> stopCalls = 1)
    /\ [][ isShuttingDown => stopCalls' = stopCalls ]_vars
    /\ [][ (isShuttingDown /\ pendingSignals' # pendingSignals)
           => UNCHANGED <<state, currentPosition, cycleCount, isCycleRunning,
                          cycleInterval, isShuttingDown, mainPc, task, venue,
                          orders>> ]_vars

C40_Witness ==
    /\ isShuttingDown /\ stopCalls = 1
    /\ pendingSignals = MaxSignals - 2
    /\ task.stop.pc = "drain" /\ isCycleRunning

====
